---- MODULE Spec2Model ----
(***************************************************************************)
(* Model of CrystalC++.cpp: the particle buffer, the compute kernel that   *)
(* advances it, the memory barrier, the draw, and the frame loop of main.  *)
(*                                                                         *)
(* Units.  The buffer is modelled at the granularity of one 32-bit word    *)
(* (one float).  Lengths are integers: one unit of velocity is the x       *)
(* component of the initial velocity, one unit of time is one clock        *)
(* quantum of glfwGetTime, one unit of position is their product.  Float   *)
(* rounding is not modelled.                                               *)
(***************************************************************************)
EXTENDS Integers, Sequences, FiniteSets, TLC

\* ----- bounds of the model
MaxTicks == 3
MaxDelta == 1

\* ----- program constants
MAX_PARTICLES == 100
LOCAL_SIZE_X == 256
\* sizeof(glm::vec3) in words
VEC3_WORDS == 3
\* std430 base alignment of a vec3 in words
VEC3_ALIGN == 4
INITIAL_POSITION == <<0, 0, 0>>
INITIAL_VELOCITY == <<1, 0, 0>>

\* ----- configuration inputs
\* particle counts: below one group, the default, one full group, one full
\* group plus one particle
Counts == {4, MAX_PARTICLES, LOCAL_SIZE_X, LOCAL_SIZE_X + 1}
Speeds == {-1, 0, 1, 2}
\* values an out-of-bounds buffer read may return
OobReadVals == {0, 1}

VARIABLES
    pc,                   \* position of main
    count,                \* number of particles (MAX_PARTICLES)
    simulationSpeed,      \* global simulationSpeed
    paused,               \* global paused
    shouldClose,          \* glfwWindowShouldClose(window)
    store,                \* contents of particleBuffer, word -> value
    unsynced,             \* words written by a dispatch with no barrier after it
    computeShaderProgram, \* "none", "ok", "failed"
    renderShaderProgram,  \* "none", "ok", "failed"
    currentProgram,       \* program in use: "none", "compute", "render"
    diagnostics,          \* messages written to std::cerr
    now,                  \* glfwGetTime()
    lastTime,             \* local lastTime of main
    deltaTime,            \* local deltaTime of main
    uDeltaTime,           \* uniform deltaTime of the compute program
    ticks,                \* loop iterations started
    tickLog,              \* GL commands issued in the current iteration
    tickPaused,           \* value of paused tested by the current iteration
    prevRead,             \* clock reading before the most recent one
    curRead,              \* most recent clock reading
    invoked,              \* kernel invocations launched by the last dispatch
    steps,                \* calls of runComputeShader so far
    stepDts               \* distinct deltaTime values of those calls

vars == <<pc, count, simulationSpeed, paused, shouldClose, store, unsynced,
          computeShaderProgram, renderShaderProgram, currentProgram,
          diagnostics, now, lastTime, deltaTime, uDeltaTime, ticks, tickLog,
          tickPaused, prevRead, curRead, invoked, steps, stepDts>>

\* ----- layout of the buffer

AlignUp(x, a) == ((x + a - 1) \div a) * a

\* glBufferData size in words: MAX_PARTICLES * sizeof(glm::vec3) * 2
BufferWords(n) == n * VEC3_WORDS * 2

\* word of component c of the i-th entry written by the first glBufferSubData
HostPositionAddr(i, c) == i * VEC3_WORDS + c

\* word of component c of the i-th entry written by the second glBufferSubData
HostVelocityAddr(n, i, c) == n * VEC3_WORDS + i * VEC3_WORDS + c

\* std430 offset of member velocity inside struct Particle, in words
VelocityOffset == AlignUp(VEC3_WORDS, VEC3_ALIGN)

\* std430 array stride of struct Particle, in words
ParticleStride == AlignUp(VelocityOffset + VEC3_WORDS, VEC3_ALIGN)

\* word of particles[id].position[c] as the kernel addresses it
KernelPositionAddr(id, c) == id * ParticleStride + c

\* word of particles[id].velocity[c] as the kernel addresses it
KernelVelocityAddr(id, c) == id * ParticleStride + VelocityOffset + c

InBuffer(n, w) == w >= 0 /\ w < BufferWords(n)

\* contents of the buffer after initParticles
InitialStore(n) ==
    [w \in 0..(BufferWords(n) - 1) |->
        IF w < n * VEC3_WORDS
        THEN INITIAL_POSITION[(w % VEC3_WORDS) + 1]
        ELSE INITIAL_VELOCITY[((w - n * VEC3_WORDS) % VEC3_WORDS) + 1]]

HostPosition(buf, i) == [c \in 0..2 |-> buf[HostPositionAddr(i, c)]]

HostVelocity(buf, n, i) == [c \in 0..2 |-> buf[HostVelocityAddr(n, i, c)]]

\* ----- the compute kernel

\* first argument of glDispatchCompute
NumGroups(n) == n \div LOCAL_SIZE_X

\* number of invocations of main() of the compute shader
Invocations(n) == NumGroups(n) * LOCAL_SIZE_X

\* a buffer read; an out-of-bounds read returns r
ReadWord(buf, n, w, r) == IF InBuffer(n, w) THEN buf[w] ELSE r

\* some invocation addresses a word outside the buffer
TouchesOutside(n, inv) ==
    inv > 0 /\ ~InBuffer(n, KernelVelocityAddr(inv - 1, VEC3_WORDS - 1))

\* words the invocations 0..inv-1 write inside the buffer
WrittenWords(n, inv) ==
    {w \in 0..(BufferWords(n) - 1) :
        (w % ParticleStride) < VEC3_WORDS /\ (w \div ParticleStride) < inv}

\* particles[id].position += particles[id].velocity * deltaTime for every
\* id in 0..inv-1; out-of-bounds writes are dropped
KernelStep(buf, n, inv, dt, r) ==
    [w \in 0..(BufferWords(n) - 1) |->
        LET id == w \div ParticleStride
            c  == w % ParticleStride
        IN  IF c < VEC3_WORDS /\ id < inv
            THEN buf[w] + ReadWord(buf, n, KernelVelocityAddr(id, c), r) * dt
            ELSE buf[w]]

\* ----- the frame loop

\* the loop body with the test of line 225 dropped
RunsIntegrator_Always(p) == TRUE

\* the test of line 225
RunsIntegrator(p) == ~p

\* lastTime advanced only by the iterations that integrate
NextLastTime_OnlyRunning(cur, last, p) == IF p THEN last ELSE cur

\* the assignment of line 223
NextLastTime(cur, last, p) == cur

\* the argument of runComputeShader at line 226
ScaledDelta(dt, speed) == dt * speed

\* a barrier that fences none of the kernel's writes
BarrierSync_None(u) == u

\* effect of glMemoryBarrier(GL_SHADER_STORAGE_BARRIER_BIT) on pending writes
BarrierSync(u) == {}

\* runComputeShader without its glMemoryBarrier
ProgramOrder_NoBarrier(at) ==
    CASE at = "dispatch" -> "display"
      [] at = "barrier"  -> "display"
      [] at = "display"  -> "loop"

\* the statement that follows each GL step of the loop body
ProgramOrder(at) ==
    CASE at = "dispatch" -> "barrier"
      [] at = "barrier"  -> "display"
      [] at = "display"  -> "loop"

\* effect of glUseProgram(p) on the program in use
UseProgram(status, name, cur) == IF status = "ok" THEN name ELSE cur

Init ==
    /\ pc = "start"
    /\ count \in Counts
    /\ simulationSpeed \in Speeds
    /\ paused \in BOOLEAN
    /\ shouldClose = FALSE
    /\ store = << >>
    /\ unsynced = {}
    /\ computeShaderProgram = "none"
    /\ renderShaderProgram = "none"
    /\ currentProgram = "none"
    /\ diagnostics = {}
    /\ now = 0
    /\ lastTime = 0
    /\ deltaTime = 0
    /\ uDeltaTime = 0
    /\ ticks = 0
    /\ tickLog = << >>
    /\ tickPaused = FALSE
    /\ prevRead = 0
    /\ curRead = 0
    /\ invoked = 0
    /\ steps = 0
    /\ stepDts = {}

\* main, lines 199-209: glfwInit or glfwCreateWindow fails
MainBootFail ==
    /\ pc = "start"
    /\ pc' = "exit"
    /\ \E msg \in {"Failed to initialize GLFW", "Failed to create GLFW window"} :
           diagnostics' = diagnostics \cup {msg}
    /\ UNCHANGED <<count, simulationSpeed, paused, shouldClose, store, unsynced,
                   computeShaderProgram, renderShaderProgram, currentProgram,
                   now, lastTime, deltaTime, uDeltaTime, ticks, tickLog,
                   tickPaused, prevRead, curRead, invoked, steps, stepDts>>

\* main, lines 211-219: initOpenGL (initComputeShader, initRenderShader,
\* initParticles) and the first clock reading
MainInit ==
    /\ pc = "start"
    /\ \E cOk \in BOOLEAN, rOk \in BOOLEAN :
        /\ computeShaderProgram' = IF cOk THEN "ok" ELSE "failed"
        /\ renderShaderProgram' = IF rOk THEN "ok" ELSE "failed"
        /\ diagnostics' = diagnostics
                \cup (IF cOk THEN {} ELSE {"Error linking compute shader program"})
                \cup (IF rOk THEN {} ELSE {"Error linking render shader program"})
        /\ lastTime' = now
        /\ curRead' = now
        /\ prevRead' = now
    /\ store' = InitialStore(count)
    /\ pc' = "loop"
    /\ UNCHANGED <<count, simulationSpeed, paused, shouldClose, unsynced,
                   currentProgram, now, deltaTime, uDeltaTime, ticks, tickLog,
                   tickPaused, invoked, steps, stepDts>>

\* main, lines 220-225: loop test, clock reading, test of paused
LoopTop ==
    /\ pc = "loop"
    /\ ~shouldClose
    /\ ticks < MaxTicks
    /\ \E d \in 0..MaxDelta :
        /\ now' = now + d
        /\ deltaTime' = now' - lastTime
        /\ lastTime' = NextLastTime(now', lastTime, paused)
        /\ prevRead' = curRead
        /\ curRead' = now'
    /\ ticks' = ticks + 1
    /\ tickLog' = << >>
    /\ tickPaused' = paused
    /\ pc' = IF RunsIntegrator(paused) THEN "dispatch" ELSE "display"
    /\ UNCHANGED <<count, simulationSpeed, paused, shouldClose, store, unsynced,
                   computeShaderProgram, renderShaderProgram, currentProgram,
                   diagnostics, uDeltaTime, invoked, steps, stepDts>>

\* runComputeShader, lines 168-170: glUseProgram, glUniform1f,
\* glDispatchCompute.  An access outside the buffer is undefined: the read
\* returns any value, the write is dropped or the process faults.
Dispatch ==
    /\ pc = "dispatch"
    /\ LET prog == UseProgram(computeShaderProgram, "compute", currentProgram)
           dt   == ScaledDelta(deltaTime, simulationSpeed)
           inv  == IF prog = "compute" THEN Invocations(count) ELSE 0
       IN  /\ currentProgram' = prog
           /\ uDeltaTime' = IF computeShaderProgram = "ok" THEN dt ELSE uDeltaTime
           /\ invoked' = inv
           /\ \E r \in OobReadVals, fault \in BOOLEAN :
                IF TouchesOutside(count, inv) /\ fault
                THEN /\ pc' = "crashed"
                     /\ UNCHANGED <<store, unsynced>>
                ELSE /\ (TouchesOutside(count, inv) \/ r = 0)
                     /\ ~fault
                     /\ store' = KernelStep(store, count, inv, uDeltaTime', r)
                     /\ unsynced' = unsynced \cup WrittenWords(count, inv)
                     /\ pc' = ProgramOrder("dispatch")
    /\ steps' = steps + 1
    /\ stepDts' = stepDts \cup {deltaTime}
    /\ tickLog' = Append(tickLog, "dispatch")
    /\ UNCHANGED <<count, simulationSpeed, paused, shouldClose,
                   computeShaderProgram, renderShaderProgram, diagnostics,
                   now, lastTime, deltaTime, ticks, tickPaused, prevRead,
                   curRead>>

\* runComputeShader, line 171: glMemoryBarrier
MemoryBarrier ==
    /\ pc = "barrier"
    /\ unsynced' = BarrierSync(unsynced)
    /\ tickLog' = Append(tickLog, "barrier")
    /\ pc' = ProgramOrder("barrier")
    /\ UNCHANGED <<count, simulationSpeed, paused, shouldClose, store,
                   computeShaderProgram, renderShaderProgram, currentProgram,
                   diagnostics, now, lastTime, deltaTime, uDeltaTime, ticks,
                   tickPaused, prevRead, curRead, invoked, steps, stepDts>>

\* display, lines 185-194: clear, renderParticles, swap, poll events.  The
\* draw sources no vertex attribute from particleBuffer and writes nothing to
\* it.  Polling the events may set the close request; the program itself never
\* writes the global paused, the flip here is its external writer, which can
\* only run between two statements of this single thread.
Display ==
    /\ pc = "display"
    /\ currentProgram' = UseProgram(renderShaderProgram, "render", currentProgram)
    /\ tickLog' = Append(tickLog, "draw")
    /\ \E toggle \in BOOLEAN, close \in BOOLEAN :
        /\ paused' = IF toggle THEN ~paused ELSE paused
        /\ shouldClose' = close
    /\ pc' = ProgramOrder("display")
    /\ UNCHANGED <<count, simulationSpeed, store, unsynced,
                   computeShaderProgram, renderShaderProgram, diagnostics,
                   now, lastTime, deltaTime, uDeltaTime, ticks, tickPaused,
                   prevRead, curRead, invoked, steps, stepDts>>

\* main, lines 220 and 232-233: the loop ends
LoopExit ==
    /\ pc = "loop"
    /\ shouldClose
    /\ pc' = "done"
    /\ UNCHANGED <<count, simulationSpeed, paused, shouldClose, store, unsynced,
                   computeShaderProgram, renderShaderProgram, currentProgram,
                   diagnostics, now, lastTime, deltaTime, uDeltaTime, ticks,
                   tickLog, tickPaused, prevRead, curRead, invoked, steps,
                   stepDts>>

Next ==
    \/ MainBootFail
    \/ MainInit
    \/ LoopTop
    \/ Dispatch
    \/ MemoryBarrier
    \/ Display
    \/ LoopExit

Spec == Init /\ [][Next]_vars

\* ----- helpers of the properties

Started == pc \notin {"start", "exit"}

TypeOK ==
    /\ pc \in {"start", "exit", "loop", "dispatch", "barrier", "display",
               "crashed", "done"}
    /\ count \in Counts
    /\ ticks \in 0..MaxTicks
    /\ Started => DOMAIN store = 0..(BufferWords(count) - 1)

TickDone == pc = "loop" /\ ticks > 0

\* both programs linked and the speed is not negative
WellConfigured ==
    /\ computeShaderProgram = "ok"
    /\ renderShaderProgram = "ok"
    /\ simulationSpeed >= 0

CountOf(log, x) == Cardinality({k \in DOMAIN log : log[k] = x})

Before(log, x, y) ==
    \A k \in DOMAIN log : log[k] = y =>
        \E j \in DOMAIN log : j < k /\ log[j] = x

LinearPosition(t) ==
    [c \in 0..2 |-> INITIAL_POSITION[c + 1] + INITIAL_VELOCITY[c + 1] * t]

\* ----- properties

\* C1: one call of runComputeShader launches an invocation for every particle
\* index 0..count-1 (each id is launched at most once), also when count is
\* not a multiple of the group size.
C1_DispatchCoversEveryParticle ==
    (pc = "barrier" /\ WellConfigured) =>
        \A i \in 0..(count - 1) : i < invoked

\* C2: with speed 1, after k calls of runComputeShader that all got the same
\* deltaTime d, every particle's position is the initial position plus the
\* initial velocity times k * d.
C2_ExactLinearMotion ==
    (pc \in {"barrier", "display", "loop", "done"} /\ simulationSpeed = 1
        /\ WellConfigured) =>
        \A d \in stepDts : stepDts = {d} =>
            \A i \in 0..(count - 1) :
                HostPosition(store, i) = LinearPosition(steps * d)

\* C3: while paused is true no step of the frame loop changes any word of the
\* particle buffer, whatever time passes.
C3_PauseFreeze ==
    [][(paused /\ Started) => store' = store]_vars

\* C3 witness: two paused iterations have completed, clock time passed in the
\* last one, and the buffer had been advanced by an earlier iteration.
C3_Witness ==
    /\ TickDone
    /\ tickPaused
    /\ ticks = steps + 2
    /\ steps > 0
    /\ deltaTime > 0
    /\ store # InitialStore(count)

\* C4: in every iteration deltaTime is the clock time since the immediately
\* preceding clock reading, and lastTime is advanced to the current reading,
\* whether or not the iteration is paused; the kernel gets that deltaTime
\* scaled by simulationSpeed.
C4_ResumeDelta ==
    /\ pc \in {"dispatch", "barrier", "display"} =>
          /\ deltaTime = curRead - prevRead
          /\ lastTime = curRead
    /\ (pc = "barrier" /\ computeShaderProgram = "ok") =>
          uDeltaTime = (curRead - prevRead) * simulationSpeed

\* C4 witness: the first integrating iteration after paused iterations in
\* which clock time passed.
C4_Witness ==
    /\ pc = "barrier"
    /\ steps = 1
    /\ ticks >= 2
    /\ prevRead > 0
    /\ deltaTime > 0
    /\ deltaTime < curRead

\* C5 as stated: every completed iteration, paused or not, issued the barrier
\* exactly once, before its draw.
C5_BarrierEveryTick ==
    (TickDone /\ WellConfigured) =>
        /\ CountOf(tickLog, "barrier") = 1
        /\ Before(tickLog, "barrier", "draw")

\* C5 amended: an iteration that was not paused issued dispatch, barrier, draw
\* in this order, each once; a paused iteration issued the draw only, with no
\* write of the kernel left unfenced.
C5_BarrierInRunningTicks ==
    TickDone =>
        IF tickPaused
        THEN tickLog = <<"draw">> /\ unsynced = {}
        ELSE tickLog = <<"dispatch", "barrier", "draw">>

\* C5 witness: a paused iteration completed after an iteration that wrote the
\* buffer.
C5_Witness ==
    /\ TickDone
    /\ tickPaused
    /\ steps > 0
    /\ invoked > 0
    /\ store # InitialStore(count)

\* C6: when the draw is about to be issued, every write of the kernel has been
\* followed by the barrier, and in an iteration that was not paused the
\* commands issued so far are the dispatch and then the barrier.
C6_WriteBeforeRead ==
    pc = "display" =>
        /\ unsynced = {}
        /\ ~tickPaused => tickLog = <<"dispatch", "barrier">>

\* C6 witness: the draw is about to be issued in an iteration whose dispatch
\* changed the buffer.
C6_Witness ==
    /\ pc = "display"
    /\ ~tickPaused
    /\ invoked > 0
    /\ uDeltaTime # 0
    /\ store # InitialStore(count)

\* C7: with a negative simulationSpeed the frame loop is never entered and the
\* kernel never gets a negative deltaTime.
C7_NegativeSpeedRejected ==
    simulationSpeed < 0 => (~Started /\ uDeltaTime >= 0)

\* C8: when the compute or the render program failed to compile or link, the
\* frame loop is never entered.
C8_StartupKernelErrorsFatal ==
    (computeShaderProgram = "failed" \/ renderShaderProgram = "failed") =>
        ~Started

C10_LayoutAgreement ==
    Started =>
        \A i \in 0..(count - 1), c \in 0..(VEC3_WORDS - 1) :
            /\ KernelPositionAddr(i, c) = HostPositionAddr(i, c)
            /\ KernelVelocityAddr(i, c) = HostVelocityAddr(count, i, c)
            /\ InBuffer(count, KernelVelocityAddr(i, c))
====
